---- MODULE Spec2Model ----
(***************************************************************************)
(* Endstone MCP server: the module-export indexer (_extract_exports,       *)
(* _parse_list_items), the one-time index build (_load_endstone_modules)   *)
(* and the query operations over the index.                                *)
(*                                                                         *)
(* Python strings are TLA+ strings; positions are 1-based, so Python's     *)
(* find() result -1 is 0 here and Python's s[a:b] is SubSeq(s, a+1, b).    *)
(***************************************************************************)
EXTENDS Integers, Sequences, FiniteSets, TLC

\* ------------------------------------------------------------------------
\* Bounds of the model
\* ------------------------------------------------------------------------
\* lines of a content handed to a direct _extract_exports call
MaxLines == 3
\* names of a rendered export declaration
MaxNames == 2
\* reference files that exist in the reference directory
MaxPresent == 2
\* entries of a features list
MaxFeatures == 2

\* ------------------------------------------------------------------------
\* Python str primitives
\* ------------------------------------------------------------------------
\* Python's None; no pool of the model holds this string.
None == "<None>"

Ch(s, i) == SubSeq(s, i, i)

\* backtick and apostrophe, as the message formats use them (a string
\* literal of this language cannot hold a lone backtick)
BT == SubSeq("`'", 1, 1)

SQ == "'"

\* characters removed by str.strip() without argument
Whitespace == {" ", "\t", "\n", "\r", "\f"}

\* s.find(c) for a one-character c: first position, 0 when absent
Find(s, c) ==
    IF \E i \in 1..Len(s) : Ch(s, i) = c
    THEN CHOOSE i \in 1..Len(s) : Ch(s, i) = c /\ \A j \in 1..(i-1) : Ch(s, j) # c
    ELSE 0

\* sub in s
Contains(s, sub) ==
    \E i \in 1..(Len(s) - Len(sub) + 1) : SubSeq(s, i, i + Len(sub) - 1) = sub

StartsWith(s, p) == Len(s) >= Len(p) /\ SubSeq(s, 1, Len(p)) = p

\* s.strip(chars): drop leading and trailing characters that are in cs
StripChars(s, cs) ==
    IF \A i \in 1..Len(s) : Ch(s, i) \in cs
    THEN ""
    ELSE LET a == CHOOSE i \in 1..Len(s) :
                      Ch(s, i) \notin cs /\ \A j \in 1..(i-1) : Ch(s, j) \in cs
             b == CHOOSE i \in 1..Len(s) :
                      Ch(s, i) \notin cs /\ \A j \in (i+1)..Len(s) : Ch(s, j) \in cs
         IN  SubSeq(s, a, b)

Strip(s) == StripChars(s, Whitespace)

\* s.split(c) for a one-character separator c
RECURSIVE Split(_, _)
Split(s, c) ==
    LET k == Find(s, c)
    IN  IF k = 0 THEN <<s>>
        ELSE <<SubSeq(s, 1, k - 1)>> \o Split(SubSeq(s, k + 1, Len(s)), c)

\* sep.join(parts)
RECURSIVE Join(_, _)
Join(parts, sep) ==
    IF parts = <<>> THEN ""
    ELSE IF Len(parts) = 1 THEN parts[1]
    ELSE parts[1] \o sep \o Join(Tail(parts), sep)

UpperAlpha == "ABCDEFGHIJKLMNOPQRSTUVWXYZ"
LowerAlpha == "abcdefghijklmnopqrstuvwxyz"

LowerCh(c) ==
    IF \E i \in 1..Len(UpperAlpha) : Ch(UpperAlpha, i) = c
    THEN Ch(LowerAlpha, CHOOSE i \in 1..Len(UpperAlpha) : Ch(UpperAlpha, i) = c)
    ELSE c

\* s.lower()
RECURSIVE Lower(_)
Lower(s) ==
    IF s = "" THEN "" ELSE LowerCh(Ch(s, 1)) \o Lower(SubSeq(s, 2, Len(s)))

\* ------------------------------------------------------------------------
\* Export extractor
\* ------------------------------------------------------------------------
Marker == "__all__"

\* line 126 without the quote stripping
CleanItemKeepQuotes(item) == Strip(item)

\* one piece of the comma split, as line 126 cleans it
CleanItem(item) == Strip(StripChars(StripChars(Strip(item), {"\""}), {SQ}))

\* line 127 without the test: every cleaned piece is kept
KeepAllItems(item) == TRUE

\* the test of line 127
KeepItem(item) == item # "" /\ ~StartsWith(item, "#")

\* _parse_list_items(items_str)
ParseListItems(items_str) ==
    LET parts   == Split(items_str, ",")
        cleaned == [i \in 1..Len(parts) |-> CleanItem(parts[i])]
    IN  SelectSeq(cleaned, KeepItem)

\* the marker branch with the names that follow "[" on a marker line of
\* the block form taken as exports
MarkerLineKeepsNames(st, line) ==
    IF Contains(line, "[") /\ Contains(line, "]")
    THEN [exports |-> st.exports \o
              ParseListItems(SubSeq(line, Find(line, "[") + 1, Find(line, "]") - 1)),
          in_all_block |-> FALSE]
    ELSE [exports |-> st.exports \o
              (IF Contains(line, "[")
               THEN ParseListItems(SubSeq(line, Find(line, "[") + 1, Len(line)))
               ELSE <<>>),
          in_all_block |-> TRUE]

\* The branch of a line that starts with the marker (lines 102-110): st is
\* the pair (exports, in_all_block) before the line, line the stripped line.
MarkerLine(st, line) ==
    IF Contains(line, "[") /\ Contains(line, "]")
    THEN LET start == Find(line, "[")
             end   == Find(line, "]")
         IN  IF start # 0 /\ end # 0
             THEN [exports |-> st.exports \o
                       ParseListItems(SubSeq(line, start + 1, end - 1)),
                   in_all_block |-> FALSE]
             ELSE [exports |-> st.exports, in_all_block |-> TRUE]
    ELSE [exports |-> st.exports, in_all_block |-> TRUE]

\* lines 112-118 without the reset of the flag at the closing bracket
BlockLineStayOpen(st, line) ==
    IF Contains(line, "]")
    THEN [exports |-> st.exports \o
              ParseListItems(SubSeq(line, 1, Find(line, "]") - 1)),
          in_all_block |-> TRUE]
    ELSE [exports |-> st.exports \o ParseListItems(line), in_all_block |-> TRUE]

\* The branch of a line inside the block (lines 112-118)
BlockLine(st, line) ==
    IF Contains(line, "]")
    THEN [exports |-> st.exports \o
              ParseListItems(SubSeq(line, 1, Find(line, "]") - 1)),
          in_all_block |-> FALSE]
    ELSE [exports |-> st.exports \o ParseListItems(line), in_all_block |-> TRUE]

\* One iteration of the loop of _extract_exports (lines 99-118)
ScanLine(st, raw) ==
    LET line == Strip(raw)
    IN  IF StartsWith(line, Marker) THEN MarkerLine(st, line)
        ELSE IF st.in_all_block THEN BlockLine(st, line)
        ELSE st

\* the locals of _extract_exports before the loop
ScanStart == [exports |-> <<>>, in_all_block |-> FALSE]

\* the locals after the first k lines
RECURSIVE ScanTo(_, _)
ScanTo(lines, k) ==
    IF k = 0 THEN ScanStart ELSE ScanLine(ScanTo(lines, k - 1), lines[k])

\* _extract_exports(content)
ExtractExports(content) ==
    LET lines == Split(content, "\n")
    IN  ScanTo(lines, Len(lines)).exports

\* ------------------------------------------------------------------------
\* Configuration
\* ------------------------------------------------------------------------
\* ENDSTONE_REF_PATH, relative to the directory of the server file
ENDSTONE_REF_PATH == "reference/endstone"

\* core_modules, in insertion order: <<file name, module name>>
core_modules ==
    << <<"__init__.py", "endstone">>,
       <<"actor.py", "endstone.actor">>,
       <<"ban.py", "endstone.ban">>,
       <<"block.py", "endstone.block">>,
       <<"boss.py", "endstone.boss">>,
       <<"command.py", "endstone.command">>,
       <<"damage.py", "endstone.damage">>,
       <<"enchantments.py", "endstone.enchantments">>,
       <<"event.py", "endstone.event">>,
       <<"form.py", "endstone.form">>,
       <<"inventory.py", "endstone.inventory">>,
       <<"lang.py", "endstone.lang">>,
       <<"level.py", "endstone.level">>,
       <<"map.py", "endstone.map">>,
       <<"permissions.py", "endstone.permissions">>,
       <<"plugin.py", "endstone.plugin">>,
       <<"scheduler.py", "endstone.scheduler">>,
       <<"scoreboard.py", "endstone.scoreboard">>,
       <<"util.py", "endstone.util">> >>

NumFiles == Len(core_modules)

FileNames == {core_modules[i][1] : i \in 1..NumFiles}

\* ------------------------------------------------------------------------
\* Python dict with insertion order: a sequence of <<key, value>> entries
\* ------------------------------------------------------------------------
DictKeys(d) == [i \in 1..Len(d) |-> d[i].key]

DictHas(d, k) == \E i \in 1..Len(d) : d[i].key = k

DictGet(d, k) == d[CHOOSE i \in 1..Len(d) : d[i].key = k].value

\* d[k] = v: an existing key keeps its position, a new key goes last
DictSet(d, k, v) ==
    IF DictHas(d, k)
    THEN [i \in 1..Len(d) |-> IF d[i].key = k THEN [key |-> k, value |-> v] ELSE d[i]]
    ELSE Append(d, [key |-> k, value |-> v])

\* membership that ignores the case of the letters
InListAnyCase(x, xs) == \E i \in 1..Len(xs) : Lower(xs[i]) = Lower(x)

\* x in xs, for a list xs
InList(x, xs) == \E i \in 1..Len(xs) : xs[i] = x

\* (not v) for a value that is a str or None
Falsy(v) == v = None \/ v = ""

\* ------------------------------------------------------------------------
\* State
\* ------------------------------------------------------------------------
VARIABLES
    pc,                \* position of the server: "loading", "setup",
                       \* "constructed", "serving", "crashed"
    fs,                \* the reference directory: file name -> [status, content]
    file_i,            \* number of core_modules entries the build loop has taken
    modules,           \* the local dict of _load_endstone_modules
    endstone_modules,  \* self.endstone_modules
    call,              \* the last call of a query operation
    result,            \* the text it returned
    content,           \* argument of a direct _extract_exports call
    line_i,            \* number of its lines the loop has taken
    exports,           \* its local list
    in_all_block,      \* its local flag
    ext_pc             \* "idle", "scan", "returned"

vars == <<pc, fs, file_i, modules, endstone_modules, call, result,
          content, line_i, exports, in_all_block, ext_pc>>

serverVars == <<pc, fs, file_i, modules, endstone_modules, call, result>>

scanVars == <<content, line_i, exports, in_all_block, ext_pc>>

NoCall == [tool |-> "none", arg |-> None, features |-> <<>>]

\* ------------------------------------------------------------------------
\* Index build: __init__ and _load_endstone_modules
\* ------------------------------------------------------------------------
\* One iteration of the loop over core_modules with the except clause
\* missing: a failing read leaves the loop.
LoadStepNoCatch(mods, file_name, module_name, f) ==
    IF f.status = "missing"
    THEN [modules |-> mods, raised |-> FALSE]
    ELSE IF f.status = "fail"
    THEN [modules |-> mods, raised |-> TRUE]
    ELSE [modules |-> DictSet(mods, module_name,
                        [file_path |-> ENDSTONE_REF_PATH \o "/" \o file_name,
                         exports   |-> ExtractExports(f.content),
                         content   |-> f.content]),
          raised |-> FALSE]

\* One iteration of the loop over core_modules (lines 77-89): f is what the
\* file system holds under file_name.  The result is the dict after the
\* iteration and whether an exception left the loop.
LoadStep(mods, file_name, module_name, f) ==
    IF f.status = "missing"
    THEN \* file_path.exists() is false
         [modules |-> mods, raised |-> FALSE]
    ELSE IF f.status = "fail"
    THEN \* read_text raises inside the try; the except logs a warning
         [modules |-> mods, raised |-> FALSE]
    ELSE [modules |-> DictSet(mods, module_name,
                        [file_path |-> ENDSTONE_REF_PATH \o "/" \o file_name,
                         exports   |-> ExtractExports(f.content),
                         content   |-> f.content]),
          raised |-> FALSE]

LoadFile ==
    /\ pc = "loading"
    /\ file_i < NumFiles
    /\ LET entry == core_modules[file_i + 1]
           r     == LoadStep(modules, entry[1], entry[2], fs[entry[1]])
       IN  /\ modules' = r.modules
           /\ pc' = IF r.raised THEN "crashed" ELSE "loading"
    /\ file_i' = file_i + 1
    /\ UNCHANGED <<fs, endstone_modules, call, result, scanVars>>

\* the return placed inside the loop: the build ends after the first file
LoopDoneEarly == file_i >= 1

\* the for loop of line 77 is exhausted
LoopDone == file_i = NumFiles

\* return modules (line 91) and the assignment of line 47
ReturnModules ==
    /\ pc = "loading"
    /\ LoopDone
    /\ endstone_modules' = modules
    /\ pc' = "setup"
    /\ UNCHANGED <<fs, file_i, modules, call, result, scanVars>>

\* _setup_handlers (line 48): registers the handlers, __init__ returns
SetupHandlers ==
    /\ pc = "setup"
    /\ pc' = "constructed"
    /\ UNCHANGED <<fs, file_i, modules, endstone_modules, call, result, scanVars>>

\* main: asyncio.run(server.run()) on the constructed server
Run ==
    /\ pc = "constructed"
    /\ pc' = "serving"
    /\ UNCHANGED <<fs, file_i, modules, endstone_modules, call, result, scanVars>>

\* The query operations are reached through the handler that
\* _setup_handlers registered, which the transport calls while run() is
\* active.
CanQuery == pc = "serving"

\* ------------------------------------------------------------------------
\* Query operations: the text each returns
\* ------------------------------------------------------------------------
RECURSIVE Flatten(_)
Flatten(seqs) ==
    IF seqs = <<>> THEN <<>> ELSE Head(seqs) \o Flatten(Tail(seqs))

\* "".join(parts)
Concat(parts) == Join(parts, "")

\* s.replace(old, new) for a non-empty old
RECURSIVE Replace(_, _, _)
Replace(s, old, new) ==
    IF Len(s) < Len(old) THEN s
    ELSE IF StartsWith(s, old)
    THEN new \o Replace(SubSeq(s, Len(old) + 1, Len(s)), old, new)
    ELSE Ch(s, 1) \o Replace(SubSeq(s, 2, Len(s)), old, new)

\* line 294 joining all keys but the last
AvailableModulesButLast(d) ==
    Join(SubSeq(DictKeys(d), 1, Len(d) - 1), ", ")

\* ", ".join(self.endstone_modules.keys()) (line 294)
AvailableModules(d) == Join(DictKeys(d), ", ")

\* _get_module_info (lines 268-300)
GetModuleInfoText(d, module_name) ==
    IF Falsy(module_name)
    THEN "Module name is required"
    ELSE IF DictHas(d, module_name)
    THEN LET module_info == DictGet(d, module_name)
             exps        == module_info.exports
         IN  "# " \o module_name \o "\n\n"
             \o "**File:** " \o module_info.file_path \o "\n\n"
             \o "**Exports:** " \o ToString(Len(exps)) \o " items\n\n"
             \o (IF exps # <<>>
                 THEN "## Available Exports:\n"
                      \o Concat([i \in 1..Len(exps) |-> "- " \o BT \o exps[i] \o BT \o "\n"])
                 ELSE "No exports found in __all__\n")
    ELSE "Module " \o SQ \o module_name \o SQ \o " not found. Available modules: "
         \o AvailableModules(d)

\* line 314 without the lower() of the export
ExportMatchesExactCase(export, query_lower) == Contains(export, query_lower)

\* the test of line 314
ExportMatches(export, query_lower) == Contains(Lower(export), query_lower)

\* the result lines of _search_exports (lines 309-315)
SearchLines(d, query) ==
    LET query_lower == Lower(query)
        ofModule(i) ==
            LET exps == d[i].value.exports
                hits == SelectSeq(exps, LAMBDA e : ExportMatches(e, query_lower))
            IN  [j \in 1..Len(hits) |->
                    "- " \o BT \o hits[j] \o BT \o " from " \o BT \o d[i].key \o BT]
    IN  Flatten([i \in 1..Len(d) |-> ofModule(i)])

\* _search_exports (lines 302-324)
SearchExportsText(d, query) ==
    IF Falsy(query)
    THEN "Search query is required"
    ELSE LET results == SearchLines(d, query)
         IN  IF results # <<>>
             THEN "# Search Results for " \o SQ \o query \o SQ \o "\n\n" \o Join(results, "\n")
             ELSE "No exports found matching " \o SQ \o query \o SQ

\* the comprehension of line 356 with the test made on the lowered name
EventListAnyCase(events) == SelectSeq(events, LAMBDA e : Contains(Lower(e), "event"))

\* [e for e in events if 'Event' in e]
EventList(events) == SelectSeq(events, LAMBDA e : Contains(e, "Event"))

\* _get_event_info (lines 339-367)
GetEventInfoText(d, event_type) ==
    IF DictHas(d, "endstone.event")
    THEN LET events == DictGet(d, "endstone.event").exports
         IN  IF ~Falsy(event_type)
             THEN IF InList(event_type, events)
                  THEN "# " \o event_type
                       \o "\n\nThis event is available in endstone.event module.\n\n"
                       \o "## Usage Example:\n\n"
                       \o BT \o BT \o BT \o "python\nfrom endstone.event import " \o event_type
                       \o ", event_handler\n\n"
                       \o "@event_handler\n"
                       \o "def on_" \o Replace(Lower(event_type), "event", "")
                       \o "(self, event: " \o event_type \o "):\n"
                       \o "    # Handle the event\n"
                       \o "    pass\n" \o BT \o BT \o BT
                  ELSE "Event " \o SQ \o event_type \o SQ \o " not found. Available events: "
                       \o Join(EventList(events), ", ")
             ELSE LET event_list == EventList(events)
                  IN  "# Available Events (" \o ToString(Len(event_list)) \o ")\n\n"
                      \o Concat([i \in 1..Len(event_list) |->
                                    "- " \o BT \o event_list[i] \o BT \o "\n"])
    ELSE "Event module not found"

\* the fragments of _create_plugin_template (lines 371-418)
BaseFragment(plugin_name) ==
    "from endstone.plugin import Plugin\nfrom endstone import Logger\n\nclass "
    \o plugin_name
    \o "Plugin(Plugin):\n    \n    def __init__(self):\n        super().__init__()\n        self.logger: Logger = self.get_logger()\n    \n    def on_enable(self) -> None:\n        \"\"\"Called when the plugin is enabled.\"\"\"\n        self.logger.info(f\"{self.name} v{self.version} has been enabled!\")\n"

EventsFragment ==
    "\n        # Register event handlers\n        self.register_events()\n    \n    def register_events(self):\n        \"\"\"Register event handlers.\"\"\"\n        from endstone.event import event_handler, PlayerJoinEvent\n        \n        @event_handler\n        def on_player_join(self, event: PlayerJoinEvent):\n            player = event.player\n            self.logger.info(f\"Player {{player.name}} joined the server!\")\n"

CommandsFragment ==
    "\n        # Register commands\n        self.register_commands()\n    \n    def register_commands(self):\n        \"\"\"Register custom commands.\"\"\"\n        from endstone.command import Command, CommandExecutor\n        \n        # Example command implementation\n        pass\n"

ClosingFragment ==
    "\n    \n    def on_disable(self) -> None:\n        \"\"\"Called when the plugin is disabled.\"\"\"\n        self.logger.info(f\"{{self.name}} has been disabled!\")\n"

\* the fragments appended in the order the flags appear in features
CreatePluginTemplateInListOrder(plugin_name, features) ==
    LET frag(f) == IF f = "events" THEN EventsFragment
                   ELSE IF f = "commands" THEN CommandsFragment ELSE ""
        firsts  == SelectSeq([i \in 1..Len(features) |-> [f |-> features[i], i |-> i]],
                             LAMBDA r : \A j \in 1..(r.i - 1) : features[j] # r.f)
    IN  BaseFragment(plugin_name)
        \o Concat([i \in 1..Len(firsts) |-> frag(firsts[i].f)])
        \o ClosingFragment

\* _create_plugin_template (lines 369-420)
CreatePluginTemplate(plugin_name, features) ==
    BaseFragment(plugin_name)
    \o (IF InList("events", features) THEN EventsFragment ELSE "")
    \o (IF InList("commands", features) THEN CommandsFragment ELSE "")
    \o ClosingFragment

\* _generate_plugin_template (lines 326-337)
GeneratePluginTemplateText(plugin_name, features) ==
    IF Falsy(plugin_name)
    THEN "Plugin name is required"
    ELSE CreatePluginTemplate(plugin_name, features)

\* ------------------------------------------------------------------------
\* handle_call_tool (lines 200-223): the values the transport can pass
\* ------------------------------------------------------------------------
\* A value held by the argument mapping: None, a str or a list of str.
PyNone == [t |-> "NoneType", s |-> None, xs |-> <<>>]

PyStr(s) == [t |-> "str", s |-> s, xs |-> <<>>]

PyList(xs) == [t |-> "list", s |-> None, xs |-> xs]

\* The arguments parameter: None, a list, or a dict given as its entries.
NoArguments == [t |-> "NoneType", xs |-> <<>>, kv |-> <<>>]

ListArguments(xs) == [t |-> "list", xs |-> xs, kv |-> <<>>]

DictArguments(kv) == [t |-> "dict", xs |-> <<>>, kv |-> kv]

\* f"{v}": a str as it is, None as its name, a list of str as its repr
Format(v) ==
    IF v.t = "str" THEN v.s
    ELSE IF v.t = "NoneType" THEN "None"
    ELSE "[" \o Join([i \in 1..Len(v.xs) |-> SQ \o v.xs[i] \o SQ], ", ") \o "]"

\* (not v)
PyFalsy(v) == IF v.t = "list" THEN v.xs = <<>> ELSE Falsy(v.s)

\* How a call of an operation ends: with a text, or with an exception
\* whose str() is the text.
Returned(text) == [raised |-> FALSE, text |-> text]

Raised(message) == [raised |-> TRUE, text |-> message]

\* arguments.get(key, default) on a dict
ArgumentsGet(arguments, key, default) ==
    IF DictHas(arguments.kv, key) THEN DictGet(arguments.kv, key) ELSE default

\* _get_module_info(v): a non-empty list fails the hash of the dict lookup
\* of line 275
GetModuleInfoOutcome(d, v) ==
    IF v.t = "list" /\ v.xs # <<>>
    THEN Raised("unhashable type: 'list'")
    ELSE Returned(GetModuleInfoText(d, IF v.t = "list" THEN None ELSE v.s))

\* _search_exports(v): a non-empty list has no lower() (line 309)
SearchExportsOutcome(d, v) ==
    IF v.t = "list" /\ v.xs # <<>>
    THEN Raised("'list' object has no attribute 'lower'")
    ELSE Returned(SearchExportsText(d, IF v.t = "list" THEN None ELSE v.s))

\* _get_event_info(v): a non-empty list equals no export, and is formatted
\* into the message of line 354
GetEventInfoOutcome(d, v) ==
    IF v.t = "list" /\ v.xs # <<>>
    THEN Returned(IF DictHas(d, "endstone.event")
                  THEN "Event " \o SQ \o Format(v) \o SQ
                       \o " not found. Available events: "
                       \o Join(EventList(DictGet(d, "endstone.event").exports), ", ")
                  ELSE "Event module not found")
    ELSE Returned(GetEventInfoText(d, IF v.t = "list" THEN None ELSE v.s))

\* _generate_plugin_template(plugin_name, features): the name is formatted
\* into the base fragment; ("events" in features) is membership in a list,
\* containment in a str, and a TypeError on None (line 385)
GeneratePluginTemplateOutcome(plugin_name, features) ==
    IF PyFalsy(plugin_name)
    THEN Returned("Plugin name is required")
    ELSE IF features.t = "NoneType"
    THEN Raised("argument of type 'NoneType' is not iterable")
    ELSE IF features.t = "list"
    THEN Returned(CreatePluginTemplate(Format(plugin_name), features.xs))
    ELSE Returned(BaseFragment(Format(plugin_name))
                  \o (IF Contains(features.s, "events") THEN EventsFragment ELSE "")
                  \o (IF Contains(features.s, "commands") THEN CommandsFragment ELSE "")
                  \o ClosingFragment)

ToolNames ==
    {"get_module_info", "search_exports", "generate_plugin_template", "get_event_info"}

\* the body of the try (lines 204-220)
TryBody(d, name, arguments) ==
    IF name \notin ToolNames
    THEN Returned("Unknown tool: " \o name)
    ELSE IF arguments.t # "dict"
    THEN \* arguments.get is looked up on something that is not a dict
         Raised(SQ \o arguments.t \o SQ \o " object has no attribute 'get'")
    ELSE IF name = "get_module_info"
    THEN GetModuleInfoOutcome(d, ArgumentsGet(arguments, "module_name", PyNone))
    ELSE IF name = "search_exports"
    THEN SearchExportsOutcome(d, ArgumentsGet(arguments, "query", PyNone))
    ELSE IF name = "generate_plugin_template"
    THEN GeneratePluginTemplateOutcome(
             ArgumentsGet(arguments, "plugin_name", PyNone),
             ArgumentsGet(arguments, "features", PyList(<<>>)))
    ELSE GetEventInfoOutcome(d, ArgumentsGet(arguments, "event_type", PyNone))

\* the handler without its except clause: the exception leaves the
\* handler and no text is returned
ExceptNothing(outcome) ==
    IF outcome.raised THEN None ELSE outcome.text

\* except Exception as e (lines 221-223)
ExceptException(outcome) ==
    IF outcome.raised THEN "Error: " \o outcome.text ELSE outcome.text

HandleCallToolText(d, name, arguments) ==
    ExceptException(TryBody(d, name, arguments))

\* ------------------------------------------------------------------------
\* Query operations: the calls
\* ------------------------------------------------------------------------
\* the lookup done with setdefault: an unknown name gets an empty record
GetModuleInfoSetDefault(module_name) ==
    /\ CanQuery
    /\ call' = [tool |-> "get_module_info", arg |-> module_name, features |-> <<>>]
    /\ result' = GetModuleInfoText(endstone_modules, module_name)
    /\ endstone_modules' =
           IF Falsy(module_name) \/ DictHas(endstone_modules, module_name)
           THEN endstone_modules
           ELSE DictSet(endstone_modules, module_name,
                        [file_path |-> "", exports |-> <<>>, content |-> ""])
    /\ UNCHANGED <<pc, fs, file_i, modules, scanVars>>

GetModuleInfo(module_name) ==
    /\ CanQuery
    /\ call' = [tool |-> "get_module_info", arg |-> module_name, features |-> <<>>]
    /\ result' = GetModuleInfoText(endstone_modules, module_name)
    /\ UNCHANGED <<pc, fs, file_i, modules, endstone_modules, scanVars>>

SearchExports(query) ==
    /\ CanQuery
    /\ call' = [tool |-> "search_exports", arg |-> query, features |-> <<>>]
    /\ result' = SearchExportsText(endstone_modules, query)
    /\ UNCHANGED <<pc, fs, file_i, modules, endstone_modules, scanVars>>

GeneratePluginTemplate(plugin_name, features) ==
    /\ CanQuery
    /\ call' = [tool |-> "generate_plugin_template", arg |-> plugin_name,
                features |-> features]
    /\ result' = GeneratePluginTemplateText(plugin_name, features)
    /\ UNCHANGED <<pc, fs, file_i, modules, endstone_modules, scanVars>>

GetEventInfo(event_type) ==
    /\ CanQuery
    /\ call' = [tool |-> "get_event_info", arg |-> event_type, features |-> <<>>]
    /\ result' = GetEventInfoText(endstone_modules, event_type)
    /\ UNCHANGED <<pc, fs, file_i, modules, endstone_modules, scanVars>>

\* handle_call_tool(name, arguments) (lines 200-223)
HandleCallTool(name, arguments) ==
    /\ CanQuery
    /\ call' = [tool |-> "call_tool", name |-> name, arguments |-> arguments]
    /\ result' = HandleCallToolText(endstone_modules, name, arguments)
    /\ UNCHANGED <<pc, fs, file_i, modules, endstone_modules, scanVars>>

\* ------------------------------------------------------------------------
\* A direct call of _extract_exports(content), one loop iteration per step
\* ------------------------------------------------------------------------
Lines == Split(content, "\n")

ExtractStep ==
    /\ ext_pc = "scan"
    /\ line_i < Len(Lines)
    /\ LET st == ScanLine([exports |-> exports, in_all_block |-> in_all_block],
                          Lines[line_i + 1])
       IN  /\ exports' = st.exports
           /\ in_all_block' = st.in_all_block
    /\ line_i' = line_i + 1
    /\ UNCHANGED <<serverVars, content, ext_pc>>

\* return exports (line 120)
ExtractReturn ==
    /\ ext_pc = "scan"
    /\ line_i = Len(Lines)
    /\ ext_pc' = "returned"
    /\ UNCHANGED <<serverVars, content, line_i, exports, in_all_block>>

\* ------------------------------------------------------------------------
\* Inputs
\* ------------------------------------------------------------------------
\* sequences over S of length lo..hi
SeqsOf(S, lo, hi) == UNION {[1..n -> S] : n \in lo..hi}

\* contents of reference files
RefContents ==
    { "from endstone._internal import *\n__all__ = [\"PlayerJoinEvent\", \"event_handler\", \"EventPriority\", \"PlayerJoinEvent\"]\n",
      "__all__ = [\n    \"ActionForm\",\n    'eventful',\n    \"Form\",\n]\n",
      "import os\n" }

Missing == [status |-> "missing", content |-> ""]

PresentStates ==
    {[status |-> "fail", content |-> ""]}
        \cup {[status |-> "ok", content |-> c] : c \in RefContents}

\* The files that may exist: the first and the last configured file and
\* the file of the event module.  The build treats every file alike, the
\* queries single out endstone.event.
VariedFiles == {"__init__.py", "event.py", "util.py"}

\* the sets of at most k of these files
RECURSIVE FileSetsUpTo(_)
FileSetsUpTo(k) ==
    IF k = 0 THEN {{}}
    ELSE LET P == FileSetsUpTo(k - 1)
         IN  P \cup {s \cup {f} : s \in P, f \in VariedFiles}

\* the reference directories: at most MaxPresent of the files exist
FsPool ==
    UNION { { [n \in FileNames |-> IF n \in S THEN a[n] ELSE Missing] :
                a \in [S -> PresentStates] } : S \in FileSetsUpTo(MaxPresent) }

ModuleNameArgs == {None, "", "endstone.event", "endstone.util", "invalid.module"}

QueryArgs == {None, "", "form", "EVENT", "zzz"}

EventTypeArgs == {None, "", "PlayerJoinEvent", "event_handler", "playerjoinevent"}

FeatureArgs == SeqsOf({"events", "commands", "gui"}, 0, MaxFeatures)

\* <<plugin_name, features>>
TemplateArgs ==
    {<<"Foo", f>> : f \in FeatureArgs}
        \cup {<<None, <<>>>>, <<"", <<>>>>, <<"", <<"events", "commands">>>>}

\* <<name, arguments>> of a call of the call-tool handler
CallToolArgs ==
    { <<"get_module_info", NoArguments>>,
      <<"no_such_tool", NoArguments>>,
      <<"search_exports", ListArguments(<<"x">>)>>,
      <<"get_module_info", DictArguments(<<>>)>>,
      <<"get_module_info",
        DictArguments(<<[key |-> "module_name", value |-> PyStr("invalid.module")]>>)>>,
      <<"get_module_info",
        DictArguments(<<[key |-> "module_name", value |-> PyStr("endstone.event")]>>)>>,
      <<"get_module_info",
        DictArguments(<<[key |-> "module_name", value |-> PyList(<<"x">>)]>>)>>,
      <<"search_exports",
        DictArguments(<<[key |-> "query", value |-> PyStr("zzz")]>>)>>,
      <<"search_exports",
        DictArguments(<<[key |-> "query", value |-> PyList(<<"x">>)]>>)>>,
      <<"generate_plugin_template",
        DictArguments(<<[key |-> "plugin_name", value |-> PyStr("Foo")]>>)>>,
      <<"generate_plugin_template",
        DictArguments(<<[key |-> "plugin_name", value |-> PyStr("Foo")],
                        [key |-> "features", value |-> PyNone]>>)>>,
      <<"generate_plugin_template",
        DictArguments(<<[key |-> "plugin_name", value |-> PyList(<<"x">>)],
                        [key |-> "features", value |-> PyStr("my events")]>>)>>,
      <<"get_event_info",
        DictArguments(<<[key |-> "event_type", value |-> PyStr("NoSuchEvent")]>>)>>,
      <<"get_event_info",
        DictArguments(<<[key |-> "event_type", value |-> PyList(<<"x">>)]>>)>> }

\* lines a content is made of
LinePool ==
    { "__all__ = [\"A\", 'b']",
      "__all__ = [",
      "  __all__ = [\"C\",",
      "    \"A\",",
      "    'b', # note",
      "]",
      "\"D\"] + [\"E\"]",
      "# \"x\", \"F\"",
      ", \"\", '#h', ''",
      "import os",
      "" }

FreeContents == {Join(ls, "\n") : ls \in SeqsOf(LinePool, 1, MaxLines)}

\* names of a well-formed declaration
NamePool == {"A", "b2", "__all__"}

\* lines around a declaration that do not start with the marker
SurroundPool == {"import os", "x = [\"Q\", 'R']", "    \"Z\",", "]"}

\* The text of one export declaration of the names, quoted with q: all on
\* the marker line, or one per line between the marker line and a "]" line
\* (trail: the last name is followed by a comma too).
RenderDecl(form, q, trail, names) ==
    LET quoted == [i \in 1..Len(names) |-> q \o names[i] \o q]
    IN  IF form = "single"
        THEN << Marker \o " = [" \o Join(quoted, ", ")
                    \o (IF trail /\ names # <<>> THEN "," ELSE "") \o "]" >>
        ELSE << Marker \o " = [" >>
             \o [i \in 1..Len(names) |->
                    "    " \o quoted[i]
                        \o (IF trail \/ i < Len(names) THEN "," ELSE "")]
             \o << "]" >>

\* contents holding one declaration, with the names it lists
DeclCases ==
    { [content |-> Join(pre \o RenderDecl(form, q, trail, names) \o post, "\n"),
       names   |-> names] :
        form \in {"single", "block"}, q \in {"\"", SQ}, trail \in BOOLEAN,
        names \in SeqsOf(NamePool, 0, MaxNames),
        pre \in SeqsOf(SurroundPool, 0, 1), post \in SeqsOf(SurroundPool, 0, 1) }

\* contents in which a marker line holds a "]" and no "[", after an open
\* block or after a line outside any block
ReopenCases ==
    { Join(<<first, "__all__ += more]">> \o rest, "\n") :
        first \in {"__all__ = [", "import os"},
        rest \in SeqsOf({"    \"A\",", "import os", "\"D\"] + [\"E\"]", "__all__ = ["},
                        0, MaxLines - 2) }

ContentPool == FreeContents \cup {d.content : d \in DeclCases} \cup ReopenCases

\* ------------------------------------------------------------------------
\* Specifications
\* ------------------------------------------------------------------------
\* __init__ has created the Server object and enters _load_endstone_modules
Init ==
    /\ pc = "loading"
    /\ fs \in FsPool
    /\ file_i = 0
    /\ modules = <<>>
    /\ endstone_modules = <<>>
    /\ call = NoCall
    /\ result = None
    /\ content = ""
    /\ line_i = 0
    /\ exports = <<>>
    /\ in_all_block = FALSE
    /\ ext_pc = "idle"

Next ==
    \/ LoadFile
    \/ ReturnModules
    \/ SetupHandlers
    \/ Run
    \/ \E module_name \in ModuleNameArgs : GetModuleInfo(module_name)
    \/ \E query \in QueryArgs : SearchExports(query)
    \/ \E args \in TemplateArgs : GeneratePluginTemplate(args[1], args[2])
    \/ \E event_type \in EventTypeArgs : GetEventInfo(event_type)
    \/ \E c \in CallToolArgs : HandleCallTool(c[1], c[2])

Spec == Init /\ [][Next]_vars

\* A server constructed over an empty reference directory, on which
\* _extract_exports(content) has just been called (test_module_parsing).
InitExtract ==
    /\ pc = "constructed"
    /\ fs = [n \in FileNames |-> Missing]
    /\ file_i = NumFiles
    /\ modules = <<>>
    /\ endstone_modules = <<>>
    /\ call = NoCall
    /\ result = None
    /\ content \in ContentPool
    /\ line_i = 0
    /\ exports = <<>>
    /\ in_all_block = FALSE
    /\ ext_pc = "scan"

NextExtract ==
    \/ ExtractStep
    \/ ExtractReturn

SpecExtract == InitExtract /\ [][NextExtract]_vars

\* ------------------------------------------------------------------------
\* Properties of the index build
\* ------------------------------------------------------------------------
BuildFinished == pc \in {"setup", "constructed", "serving"}

\* the modules whose file is among the first k configured files and is
\* there and readable
ReadableModules(k) ==
    {core_modules[i][2] : i \in {j \in 1..k : fs[core_modules[j][1]].status = "ok"}}

KeySet(d) == {d[i].key : i \in 1..Len(d)}

\* C1: whatever files are missing, readable or unreadable, the build never
\* raises, every configured file is processed, and the keys of the index
\* are exactly the modules whose file exists and is readable (one entry
\* each).
C1_IndexKeysAreReadableFiles ==
    /\ pc # "crashed"
    /\ pc = "loading" =>
           /\ KeySet(modules) = ReadableModules(file_i)
           /\ Len(modules) = Cardinality(ReadableModules(file_i))
    /\ BuildFinished =>
           /\ file_i = NumFiles
           /\ KeySet(endstone_modules) = ReadableModules(NumFiles)
           /\ Len(endstone_modules) = Cardinality(ReadableModules(NumFiles))

\* a build that met an unreadable file and a missing file before a readable
\* one has finished
C1_Witness ==
    /\ BuildFinished
    /\ fs["__init__.py"].status = "fail"
    /\ fs["event.py"].status = "missing"
    /\ fs["util.py"].status = "ok"
    /\ DictKeys(endstone_modules) = <<"endstone.util">>

\* C2: once the index is built, no call of a query operation, with valid
\* or invalid arguments, changes it.
C2_QueriesLeaveIndexUnchanged ==
    [][CanQuery => endstone_modules' = endstone_modules]_vars

\* a query with an unknown module name has been answered after others, over
\* a non-empty index
C2_Witness ==
    /\ call.tool = "get_module_info"
    /\ call.arg = "invalid.module"
    /\ Len(endstone_modules) = 2

\* C3: every query is handled after the build has taken every configured
\* file and returned, and the build is never entered again: the loop index
\* never goes back and the server never returns to the loading position.
C3_BuildOnceBeforeQueries ==
    /\ [](call.tool # "none" =>
              /\ pc = "serving"
              /\ file_i = NumFiles
              /\ endstone_modules = modules)
    /\ [][/\ file_i' >= file_i
          /\ file_i' <= file_i + 1
          /\ (pc # "loading" => pc' # "loading")]_vars

\* a query answered by the running server
C3_Witness ==
    /\ pc = "serving"
    /\ call.tool = "search_exports"
    /\ file_i = NumFiles

\* ------------------------------------------------------------------------
\* Properties of the export extractor
\* ------------------------------------------------------------------------
\* C4: a content that holds one declaration listing quoted names, in
\* single-line or in block form, with lines around it that do not start
\* with the marker, yields exactly those names: same order, duplicates
\* kept, nothing from the lines around.
C4_DeclarationRoundTrip ==
    \A d \in DeclCases :
        (ext_pc = "returned" /\ content = d.content) => exports = d.names

\* a block declaration that repeats a name, with a line before and a line
\* after it, has been extracted
C4_Witness ==
    /\ ext_pc = "returned"
    /\ Len(exports) = MaxNames
    /\ exports[1] = exports[Len(exports)]
    /\ Len(Lines) = MaxNames + 4
    /\ \E d \in DeclCases : content = d.content /\ exports = d.names

IsMarkerLine(k) == StartsWith(Strip(Lines[k]), Marker)

\* a marker line that holds both brackets
IsSingleLine(k) ==
    IsMarkerLine(k) /\ Contains(Lines[k], "[") /\ Contains(Lines[k], "]")

\* Among the first k lines, the declaration opened by the last marker line
\* is over: that line was a single-line form, or a later line holds "]".
ClosedAt(k) ==
    \E m \in 1..k :
        /\ IsMarkerLine(m)
        /\ \A j \in (m+1)..k : ~IsMarkerLine(j)
        /\ \/ IsSingleLine(m)
           \/ \E j \in (m+1)..k : Contains(Lines[j], "]")

\* the scanner has exited a declaration within the first k lines
ExitedBy(k) == \E j \in 1..k : ClosedAt(j)

\* C5 as stated: once the scanner has exited a declaration, no later line
\* contributes an export and block mode is not entered again.
C5_OnlyOneDeclaration ==
    [][(ext_pc = "scan" /\ ExitedBy(line_i)) =>
           (exports' = exports /\ ~in_all_block')]_vars

\* C5 amended: after the exit of a declaration the lines that do not start
\* with the marker contribute nothing and leave the scanner outside block
\* mode, up to the next marker line; a marker line is recognised whenever
\* it appears: in single-line form its names are appended, otherwise block
\* mode is entered again.
C5_DeclarationsUntilNextMarker ==
    [][(ext_pc = "scan" /\ line_i < Len(Lines)) =>
           LET n    == line_i + 1
               line == Strip(Lines[n])
           IN  /\ (~IsMarkerLine(n) /\ ClosedAt(line_i)) =>
                      (exports' = exports /\ ~in_all_block')
               /\ (IsMarkerLine(n) /\ ~IsSingleLine(n) /\ ExitedBy(line_i)) =>
                      (exports' = exports /\ in_all_block')
               /\ (IsSingleLine(n) /\ ExitedBy(line_i)) =>
                      /\ ~in_all_block'
                      /\ exports' = exports \o ParseListItems(
                             SubSeq(line, Find(line, "[") + 1, Find(line, "]") - 1))
       ]_vars

\* after a closed block declaration a line with a quoted name was skipped
\* and a second declaration then added its names
C5_Witness ==
    /\ ext_pc = "returned"
    /\ Lines = << "__all__ = [", "\"D\"] + [\"E\"]", "__all__ = [\"A\", 'b']" >>
    /\ exports = <<"D", "A", "b">>

\* C6: every name the extractor holds or returns is non-empty and does not
\* begin with "#"; so is every export stored in the index.
C6_ExportNamesWellFormed ==
    /\ \A i \in 1..Len(exports) : exports[i] # "" /\ Ch(exports[i], 1) # "#"
    /\ \A m \in 1..Len(endstone_modules) :
           \A i \in 1..Len(endstone_modules[m].value.exports) :
               LET e == endstone_modules[m].value.exports[i]
               IN  e # "" /\ Ch(e, 1) # "#"

\* a block holding empty pieces, an empty quoted name and a quoted name that
\* begins with "#" has been extracted
C6_Witness ==
    /\ ext_pc = "returned"
    /\ Lines = << "__all__ = [", ", \"\", '#h', ''", "\"D\"] + [\"E\"]" >>
    /\ exports = <<"D">>

\* ------------------------------------------------------------------------
\* Properties of the query operations
\* ------------------------------------------------------------------------
\* the text after the first n characters
After(text, n) == SubSeq(text, n + 1, Len(text))

\* the names of a listing "a, b, c"
ListedNames(listing) ==
    LET parts == Split(listing, ",")
    IN  [i \in 1..Len(parts) |-> IF i = 1 THEN parts[i] ELSE After(parts[i], 1)]

\* C7 as stated: for an empty, absent or unknown module name the answer is
\* the "not found" message, and it names every module of the index.
C7_NotFoundForEveryBadName ==
    (/\ call.tool = "get_module_info"
     /\ Falsy(call.arg) \/ ~DictHas(endstone_modules, call.arg)) =>
        /\ Contains(result, "not found")
        /\ \A k \in KeySet(endstone_modules) : Contains(result, k)

\* C7 amended: get_module_info always answers with a text; for an empty
\* or absent name the text is "Module name is required", which lists no
\* module; for a non-empty name that is no key of the index it is the
\* "not found" message, which lists every module of the index, in
\* insertion order, separated by ", ".
C7_RequiredOrNotFound ==
    call.tool = "get_module_info" =>
        /\ result # None
        /\ Falsy(call.arg) => result = "Module name is required"
        /\ (~Falsy(call.arg) /\ ~DictHas(endstone_modules, call.arg)) =>
               LET prefix  == "Module " \o SQ \o call.arg \o SQ
                                  \o " not found. Available modules: "
                   listing == After(result, Len(prefix))
               IN  /\ StartsWith(result, prefix)
                   /\ IF endstone_modules = <<>>
                      THEN listing = ""
                      ELSE /\ ListedNames(listing) = DictKeys(endstone_modules)
                           /\ \A i \in 2..Len(Split(listing, ",")) :
                                  Ch(Split(listing, ",")[i], 1) = " "

\* an unknown name was looked up in an index of two modules and both are
\* listed
C7_Witness ==
    /\ call.tool = "get_module_info"
    /\ call.arg = "invalid.module"
    /\ DictKeys(endstone_modules) = <<"endstone.event", "endstone.util">>
    /\ Contains(result, "endstone.event, endstone.util")

\* the export is matched by the query whatever the case of the letters
MatchesAnyCase(export, query) ==
    \E a \in 1..(Len(export) - Len(query) + 1) :
        Lower(SubSeq(export, a, a + Len(query) - 1)) = Lower(query)

\* the <<module position, export position>> pairs the query matches
MatchPos(query) ==
    { p \in UNION { {<<i, j>> : j \in 1..Len(endstone_modules[i].value.exports)} :
                      i \in 1..Len(endstone_modules) } :
        MatchesAnyCase(endstone_modules[p[1]].value.exports[p[2]], query) }

Before(p, q) == p[1] < q[1] \/ (p[1] = q[1] /\ p[2] < q[2])

\* C8: an empty or absent query gets the "required" message; a query that
\* matches nothing gets the "no matches" message; otherwise there is one
\* result line per matching export entry, in index order of the modules
\* and declaration order of the exports, each naming its module.
C8_SearchListsExactlyTheMatches ==
    call.tool = "search_exports" =>
        IF Falsy(call.arg)
        THEN result = "Search query is required"
        ELSE IF MatchPos(call.arg) = {}
        THEN result = "No exports found matching " \o SQ \o call.arg \o SQ
        ELSE LET pos    == MatchPos(call.arg)
                 header == "# Search Results for " \o SQ \o call.arg \o SQ \o "\n\n"
                 rows   == Split(After(result, Len(header)), "\n")
             IN  /\ StartsWith(result, header)
                 /\ Len(rows) = Cardinality(pos)
                 /\ \A p \in pos :
                        rows[1 + Cardinality({q \in pos : Before(q, p)})] =
                            "- " \o BT \o endstone_modules[p[1]].value.exports[p[2]]
                                \o BT \o " from " \o BT \o endstone_modules[p[1]].key \o BT

\* a query in capitals matched exports of two modules, one of them twice
C8_Witness ==
    /\ call.tool = "search_exports"
    /\ call.arg = "EVENT"
    /\ Cardinality(MatchPos("EVENT")) = 5
    /\ Cardinality({p[1] : p \in MatchPos("EVENT")}) = 2
    /\ StartsWith(result, "# Search Results for ")

\* the positions of the exports of the event module that contain "Event"
EventPos ==
    LET events == DictGet(endstone_modules, "endstone.event").exports
    IN  {i \in 1..Len(events) : Contains(events[i], "Event")}

\* C9: without the event module the answer is "Event module not found",
\* whatever the event type; with it and without an event type the header
\* counts the export entries that contain "Event" and exactly those
\* entries follow, in declaration order.
C9_EventListingCountsEventExports ==
    call.tool = "get_event_info" =>
        /\ ~DictHas(endstone_modules, "endstone.event") =>
               result = "Event module not found"
        /\ (DictHas(endstone_modules, "endstone.event") /\ Falsy(call.arg)) =>
               LET events == DictGet(endstone_modules, "endstone.event").exports
                   header == "# Available Events (" \o ToString(Cardinality(EventPos))
                                 \o ")\n\n"
                   rows   == Split(After(result, Len(header)), "\n")
               IN  /\ StartsWith(result, header)
                   /\ Len(rows) = Cardinality(EventPos) + 1
                   /\ rows[Len(rows)] = ""
                   /\ \A i \in EventPos :
                          rows[1 + Cardinality({j \in EventPos : j < i})] =
                              "- " \o BT \o events[i] \o BT

\* the events of a module that declares one event twice and a name with
\* a lower-case "event" have been listed
C9_Witness ==
    /\ call.tool = "get_event_info"
    /\ call.arg = None
    /\ DictHas(endstone_modules, "endstone.event")
    /\ DictGet(endstone_modules, "endstone.event").exports =
           <<"PlayerJoinEvent", "event_handler", "EventPriority", "PlayerJoinEvent">>
    /\ StartsWith(result, "# Available Events (3)")

HasArgument(key) ==
    call.arguments.t = "dict" /\ DictHas(call.arguments.kv, key)

Argument(key) == DictGet(call.arguments.kv, key)

IsError == StartsWith(result, "Error: ")

\* what the handler answered to the call it was given
CallToolAnswered ==
    call.tool = "call_tool" =>
    /\ result # None
    /\ call.name \notin ToolNames => result = "Unknown tool: " \o call.name
    \* no argument mapping, or something that is not a mapping
    /\ (call.name \in ToolNames /\ call.arguments.t # "dict") => IsError
    \* a missing required argument
    /\ (call.name = "get_module_info" /\ call.arguments.t = "dict"
            /\ ~HasArgument("module_name")) =>
           result = "Module name is required"
    \* an unknown module
    /\ (call.name = "get_module_info" /\ HasArgument("module_name")
            /\ Argument("module_name").t = "str"
            /\ Argument("module_name").s # ""
            /\ ~DictHas(endstone_modules, Argument("module_name").s)) =>
           StartsWith(result, "Module " \o SQ \o Argument("module_name").s \o SQ
                                  \o " not found. Available modules: ")
    \* a known module
    /\ (call.name = "get_module_info" /\ HasArgument("module_name")
            /\ Argument("module_name").t = "str"
            /\ DictHas(endstone_modules, Argument("module_name").s)) =>
           StartsWith(result, "# " \o Argument("module_name").s \o "\n")
    \* no matches
    /\ (call.name = "search_exports" /\ HasArgument("query")
            /\ Argument("query").t = "str"
            /\ Argument("query").s # ""
            /\ MatchPos(Argument("query").s) = {}) =>
           result = "No exports found matching " \o SQ \o Argument("query").s \o SQ
    \* an unknown event
    /\ (call.name = "get_event_info" /\ HasArgument("event_type")
            /\ Argument("event_type").t = "str"
            /\ Argument("event_type").s # "") =>
           IF ~DictHas(endstone_modules, "endstone.event")
           THEN result = "Event module not found"
           ELSE InList(Argument("event_type").s,
                       DictGet(endstone_modules, "endstone.event").exports)
                \/ StartsWith(result, "Event " \o SQ \o Argument("event_type").s
                                          \o SQ \o " not found. Available events: ")
    \* a template asked for without a features list
    /\ (call.name = "generate_plugin_template" /\ HasArgument("plugin_name")
            /\ Argument("plugin_name").t = "str"
            /\ Argument("plugin_name").s # ""
            /\ ~HasArgument("features")) =>
           result = BaseFragment(Argument("plugin_name").s) \o ClosingFragment
    \* argument values of another type than the operation works on
    /\ (call.name = "get_module_info" /\ HasArgument("module_name")
            /\ Argument("module_name").t = "list"
            /\ Argument("module_name").xs # <<>>) => IsError
    /\ (call.name = "search_exports" /\ HasArgument("query")
            /\ Argument("query").t = "list"
            /\ Argument("query").xs # <<>>) => IsError
    /\ (call.name = "generate_plugin_template" /\ HasArgument("plugin_name")
            /\ ~PyFalsy(Argument("plugin_name"))
            /\ HasArgument("features")
            /\ Argument("features").t = "NoneType") => IsError
    \* and nothing else is answered with an error text
    /\ (/\ call.arguments.t = "dict"
        /\ \A i \in 1..Len(call.arguments.kv) :
               \/ call.arguments.kv[i].value.t = "str"
               \/ /\ call.arguments.kv[i].key = "features"
                  /\ call.arguments.kv[i].value.t = "list") => ~IsError

\* C11: every call of the call-tool handler ends with a text and never
\* with an exception that leaves the handler: an unknown tool name, a
\* missing required argument, an unknown module or event and a query
\* without matches get their descriptive text; a missing or malformed
\* argument mapping and an argument value the operation fails on get a
\* text that starts with "Error: "; after the step of the call the server
\* still accepts queries and the index is what it was before the step.
C11_CallToolAlwaysAnswers ==
    /\ []CallToolAnswered
    /\ [][(call.tool = "call_tool")' =>
              /\ CanQuery'
              /\ endstone_modules' = endstone_modules]_vars

\* a call without an argument mapping was answered with an error text by a
\* server whose index holds a module
C11_Witness ==
    /\ call.tool = "call_tool"
    /\ call.name = "get_module_info"
    /\ call.arguments = NoArguments
    /\ result = "Error: 'NoneType' object has no attribute 'get'"
    /\ endstone_modules # <<>>
    /\ CanQuery

\* the answer is the description of event_type with its usage snippet
IsEventDescription(text, event_type) ==
    /\ StartsWith(text, "# " \o event_type
                        \o "\n\nThis event is available in endstone.event module.\n\n"
                        \o "## Usage Example:\n\n")
    /\ Contains(text, "from endstone.event import " \o event_type \o ", event_handler\n")
    /\ Contains(text, "@event_handler\ndef on_")
    /\ Contains(text, "(self, event: " \o event_type \o "):\n")

\* the answer is the "not found" message for event_type, and the names it
\* lists are the export entries that contain "Event", each as often as it
\* is declared and in declaration order
IsEventNotFound(text, event_type) ==
    LET events  == DictGet(endstone_modules, "endstone.event").exports
        prefix  == "Event " \o SQ \o event_type \o SQ
                       \o " not found. Available events: "
        listing == After(text, Len(prefix))
        names   == ListedNames(listing)
    IN  /\ StartsWith(text, prefix)
        /\ IF EventPos = {}
           THEN listing = ""
           ELSE /\ Len(names) = Cardinality(EventPos)
                /\ \A i \in EventPos :
                       names[1 + Cardinality({j \in EventPos : j < i})] = events[i]

\* C12: with the event module in the index and a non-empty event_type,
\* get_event_info answers with the description and usage snippet exactly
\* when event_type equals an entry of the export list of the module,
\* letter case included; otherwise it answers with the "not found"
\* message, which lists exactly the export entries that contain "Event".
C12_DescriptionIffExactExport ==
    (/\ call.tool = "get_event_info"
     /\ DictHas(endstone_modules, "endstone.event")
     /\ ~Falsy(call.arg)) =>
        LET events == DictGet(endstone_modules, "endstone.event").exports
        IN  IF \E i \in 1..Len(events) : events[i] = call.arg
            THEN /\ IsEventDescription(result, call.arg)
                 /\ ~StartsWith(result, "Event ")
            ELSE /\ IsEventNotFound(result, call.arg)
                 /\ ~IsEventDescription(result, call.arg)

\* an event type that differs from a declared event only in letter case
\* was not found, and the events were listed without the entry that has a
\* lower-case "event"
C12_Witness ==
    /\ call.tool = "get_event_info"
    /\ call.arg = "playerjoinevent"
    /\ DictHas(endstone_modules, "endstone.event")
    /\ DictGet(endstone_modules, "endstone.event").exports =
           <<"PlayerJoinEvent", "event_handler", "EventPriority", "PlayerJoinEvent">>
    /\ result = "Event 'playerjoinevent' not found. Available events: "
                    \o "PlayerJoinEvent, EventPriority, PlayerJoinEvent"

\* ------------------------------------------------------------------------
\* The block form of the declaration
\* ------------------------------------------------------------------------
\* For each line of the content: does it start with the marker, does it
\* hold both brackets, does it hold "]".
LineKinds ==
    LET ls == Lines
    IN  [k \in 1..Len(ls) |->
            [marker |-> StartsWith(Strip(ls[k]), Marker),
             both   |-> Contains(ls[k], "[") /\ Contains(ls[k], "]"),
             close  |-> Contains(ls[k], "]")]]

\* Among the first k lines a marker line of the block form is followed by
\* no line that holds "]".
OpenAt(kind, k) ==
    \E m \in 1..k :
        /\ kind[m].marker
        /\ ~kind[m].both
        /\ \A j \in (m+1)..k : ~kind[j].close

\* the names of line j of a block: those before its first "]" if it has one
BlockNames(j) ==
    LET line == Strip(Lines[j])
    IN  IF Contains(line, "]")
        THEN ParseListItems(SubSeq(line, 1, Find(line, "]") - 1))
        ELSE ParseListItems(line)

\* the names of the lines after line m that do not start with the marker
NamesAfter(kind, m) ==
    LET ls == Lines
    IN  Flatten([j \in 1..(Len(ls) - m) |->
                    IF kind[m + j].marker THEN <<>> ELSE ParseListItems(Strip(ls[m + j]))])

\* C13: a marker line that does not hold both "[" and "]" adds no export,
\* whatever is written on it, and opens the block; a line that does not
\* start with the marker adds its names while the block is open, the line
\* with the first "]" only those before the "]", and adds nothing once the
\* block is closed; when no line after the marker line holds "]", the
\* result ends with the names of all the later lines that do not start
\* with the marker.
C13_BlockMarkerLineAddsNothing ==
    /\ [](ext_pc \in {"scan", "returned"} =>
              (in_all_block <=> OpenAt(LineKinds, line_i)))
    /\ [][(ext_pc = "scan" /\ line_i < Len(Lines)) =>
              LET n    == line_i + 1
                  kind == LineKinds
              IN  /\ (kind[n].marker /\ ~kind[n].both) =>
                         (exports' = exports /\ in_all_block')
                  /\ (~kind[n].marker /\ OpenAt(kind, line_i)) =>
                         exports' = exports \o BlockNames(n)
                  /\ (~kind[n].marker /\ ~OpenAt(kind, line_i)) =>
                         exports' = exports
         ]_vars
    /\ [](ext_pc = "returned" =>
              LET kind == LineKinds
              IN  \A m \in 1..Len(kind) :
                      (/\ kind[m].marker
                       /\ ~kind[m].both
                       /\ \A j \in (m+1)..Len(kind) : ~kind[j].close) =>
                          LET tail == NamesAfter(kind, m)
                          IN  /\ Len(exports) >= Len(tail)
                              /\ SubSeq(exports, Len(exports) - Len(tail) + 1,
                                        Len(exports)) = tail
                              /\ (\A j \in 1..(m-1) : ~kind[j].marker) =>
                                     exports = tail)

\* a block whose marker line carries a name has been extracted: the name
\* of the marker line is not in the result, the names of the next line and
\* those before the "]" of the closing line are
C13_Witness ==
    /\ ext_pc = "returned"
    /\ Lines = << "  __all__ = [\"C\",", "    \"A\",", "\"D\"] + [\"E\"]" >>
    /\ exports = <<"A", "D">>

====
